---- MODULE Spec2Model ----
(***************************************************************************)
(* Model of the dataset-combination calls of the "Merge" lecture           *)
(* (lectures/_build/jupyter_execute/pandas/merge.py): pd.concat along      *)
(* axis 0 and axis 1 and pd.merge with the four `how` policies, applied to *)
(* two labelled tables shaped like the lecture's dfL and dfR.              *)
(*                                                                         *)
(* A table is a record [index, cols]: index is the sequence of row labels, *)
(* cols the sequence of columns, each [name, vals] with one value per row. *)
(* All cell values are strings; NaN is the missing-value marker.           *)
(***************************************************************************)
EXTENDS Integers, Sequences, FiniteSets, TLC

VARIABLES L, R, op, how, on, plan, out, err,
          frame, strings, numbers_loop, numbers_str_method, row, equal, pc

\* The state of the merge lecture: the two input tables, the call last run
\* (op) with its `how` and `on` arguments, and what it produced.
mergeVars == <<L, R, op, how, on, plan, out, err>>

\* The state of the cleaning lecture's appendix: the column of strings, the
\* two columns computed from it, the row the loop is at and the cell running.
cleanVars == <<frame, strings, numbers_loop, numbers_str_method, row, equal, pc>>

vars == <<mergeVars, cleanVars>>

\* Largest number of rows of a generated input table.
MaxRows == 3

\* Key values of the generated tables (the lecture's dfL and dfR add "C" and "D").
Keys == {"A", "B"}

\* Lexicographic order of the key values.
Alphabet == <<"A", "B", "C", "Canada", "D", "Germany", "Russia",
              "United Kingdom", "United States">>

\* The missing-value marker.
NaN == "NaN"

How == {"left", "right", "inner", "outer"}

(***************************************************************************)
(* Sequence helpers.                                                       *)
(***************************************************************************)
SeqsUpTo(S, n) == UNION {[1..k -> S] : k \in 0..n}

Range(s) == {s[i] : i \in 1..Len(s)}

RECURSIVE Unique(_)
\* The distinct elements of s in first-occurrence order.
Unique(s) ==
    IF s = <<>> THEN <<>>
    ELSE LET r == Unique(SubSeq(s, 1, Len(s) - 1))
             x == s[Len(s)]
         IN  IF x \in Range(r) THEN r ELSE Append(r, x)

RECURSIVE Flatten(_)
\* Concatenation of a sequence of sequences.
Flatten(ss) ==
    IF ss = <<>> THEN <<>>
    ELSE Flatten(SubSeq(ss, 1, Len(ss) - 1)) \o ss[Len(ss)]

\* The elements of the sequence s that satisfy membership in S, in order.
Keep(s, S) == SelectSeq(s, LAMBDA x : x \in S)

(***************************************************************************)
(* Tables.                                                                 *)
(***************************************************************************)
NRows(t) == Len(t.index)

ColNames(t) == [i \in 1..Len(t.cols) |-> t.cols[i].name]

HasCol(t, c) == \E i \in 1..Len(t.cols) : t.cols[i].name = c

\* The values of the first column of t named c.
Col(t, c) ==
    t.cols[CHOOSE i \in 1..Len(t.cols) :
              /\ t.cols[i].name = c
              /\ \A j \in 1..(i - 1) : t.cols[j].name # c].vals

\* Index labels L1, L2, ... / R1, R2, ... as the lecture's dfL and dfR carry.
OwnIndex(side, n) == [i \in 1..n |-> side \o ToString(i)]

\* A table with dfL's columns: Key, C1 = 1, 2, ..., C2 = 10, 20, ...
MkL(keys, idx) ==
    [index |-> idx,
     cols  |-> << [name |-> "Key", vals |-> keys],
                  [name |-> "C1", vals |-> [i \in 1..Len(keys) |-> ToString(i)]],
                  [name |-> "C2", vals |-> [i \in 1..Len(keys) |-> ToString(10 * i)]] >>]

\* A table with dfR's columns: Key, C3 = 100, 200, ...
MkR(keys, idx) ==
    [index |-> idx,
     cols  |-> << [name |-> "Key", vals |-> keys],
                  [name |-> "C3", vals |-> [i \in 1..Len(keys) |-> ToString(100 * i)]] >>]

dfL == MkL(<<"A", "B", "A", "C">>, OwnIndex("L", 4))

dfR == MkR(<<"A", "B", "C", "D">>, OwnIndex("R", 4))

\* wdi2017.drop("United States") and sq_miles.drop("Germany"), both
\* labelled by country: each has a country the other lacks.
wdi2017_no_US ==
    LET k == <<"Canada", "Germany", "United Kingdom">> IN MkL(k, k)

sq_miles_no_germany ==
    LET k == <<"United States", "Canada", "United Kingdom", "Russia">>
    IN  MkR(k, k)

\* The two ways the lecture's tables are labelled: by their own row names
\* (dfL, dfR) or by the key itself (wdi2017 and sq_miles, indexed by country).
IndexOf(side, keys, scheme) ==
    IF scheme = "own" THEN OwnIndex(side, Len(keys)) ELSE keys

Schemes == {"own", "key"}

\* What `out` holds when no table was produced.
NoTable == [index |-> <<>>, cols |-> <<>>]

(***************************************************************************)
(* pd.concat([X, Y], axis=0): stack the rows of Y under the rows of X.     *)
(***************************************************************************)
\* UnionColumns as it would be if only the shared columns were kept.
UnionColumns_Shared(X, Y) == Keep(ColNames(X), Range(ColNames(Y)))

\* The column labels of the result: all distinct labels of the inputs.
UnionColumns(X, Y) == Unique(ColNames(X) \o ColNames(Y))

\* Column c of t as it enters a row stack: its values, or all missing.
ColOrNaN(t, c) ==
    IF HasCol(t, c) THEN Col(t, c) ELSE [i \in 1..NRows(t) |-> NaN]

\* ConcatAxis0 as it would be if a row whose label was already there were
\* left out.
ConcatAxis0_DropRepeated(X, Y) ==
    LET names == UnionColumns(X, Y)
        all   == X.index \o Y.index
        keep  == SelectSeq([i \in 1..Len(all) |-> i],
                           LAMBDA i : \A j \in 1..(i - 1) : all[j] # all[i])
    IN  [index |-> [i \in 1..Len(keep) |-> all[keep[i]]],
         cols  |-> [j \in 1..Len(names) |->
                      [name |-> names[j],
                       vals |-> [i \in 1..Len(keep) |->
                                   (ColOrNaN(X, names[j])
                                       \o ColOrNaN(Y, names[j]))[keep[i]]]]]]

ConcatAxis0(X, Y) ==
    LET names == UnionColumns(X, Y)
    IN  [index |-> X.index \o Y.index,
         cols  |-> [j \in 1..Len(names) |->
                      [name |-> names[j],
                       vals |-> ColOrNaN(X, names[j]) \o ColOrNaN(Y, names[j])]]]

(***************************************************************************)
(* pd.concat([X, Y], axis=1): put the columns of Y beside those of X,      *)
(* aligning the rows on the index labels.                                  *)
(***************************************************************************)
IsUniqueIndex(idx) == \A i, j \in 1..Len(idx) : idx[i] = idx[j] => i = j

\* UnionIndex as it would be if only the labels of both inputs were kept.
UnionIndex_Shared(X, Y) == Keep(X.index, Range(Y.index))

\* The row labels of the result: an index shared by both inputs is kept as
\* it is, otherwise the distinct labels of X then the new labels of Y.
UnionIndex(X, Y) ==
    IF X.index = Y.index THEN X.index ELSE Unique(X.index \o Y.index)

\* Aligning a table on other labels looks every label up in its index,
\* which is refused when the index repeats a label.
CanAlign(X, Y) ==
    X.index = Y.index \/ (IsUniqueIndex(X.index) /\ IsUniqueIndex(Y.index))

\* The position of label x in the index idx (0 when absent).
PosOf(idx, x) ==
    IF x \in Range(idx) THEN CHOOSE i \in 1..Len(idx) : idx[i] = x ELSE 0

\* The columns of t re-laid on the row labels idx.
Reindex(t, idx) ==
    IF t.index = idx THEN t.cols
    ELSE [j \in 1..Len(t.cols) |->
            [name |-> t.cols[j].name,
             vals |-> [i \in 1..Len(idx) |->
                         IF PosOf(t.index, idx[i]) = 0 THEN NaN
                         ELSE t.cols[j].vals[PosOf(t.index, idx[i])]]]]

ConcatAxis1(X, Y) ==
    LET idx == UnionIndex(X, Y)
    IN  [index |-> idx, cols |-> Reindex(X, idx) \o Reindex(Y, idx)]

(***************************************************************************)
(* pd.merge(X, Y, on="Key", how=h): the join plan.  A plan is a sequence   *)
(* of pairs <<l, r>> of row positions of X and Y; 0 stands for "no row on  *)
(* this side".                                                             *)
(***************************************************************************)
KeyCol == "Key"

\* The row positions of keys that hold k, ascending.
Positions(keys, k) ==
    SelectSeq([i \in 1..Len(keys) |-> i], LAMBDA i : keys[i] = k)

\* Cross as it would be if a repeated key took only its first row of rp.
Cross_FirstOnly(lp, rp) == [a \in 1..Len(lp) |-> <<lp[a], rp[1]>>]

\* Every pairing of a row of lp with a row of rp, lp-major.
Cross(lp, rp) ==
    Flatten([a \in 1..Len(lp) |-> [b \in 1..Len(rp) |-> <<lp[a], rp[b]>>]])

\* KeyGroup as it would be if a key found only in Y were always dropped.
KeyGroup_NoRightOnly(lk, rk, k, h) ==
    LET lp == Positions(lk, k)
        rp == Positions(rk, k)
    IN  IF lp # <<>> /\ rp # <<>> THEN Cross(lp, rp)
        ELSE IF rp = <<>> /\ h \in {"left", "outer"}
             THEN [a \in 1..Len(lp) |-> <<lp[a], 0>>]
        ELSE <<>>

\* The plan entries of one key k under policy h.
KeyGroup(lk, rk, k, h) ==
    LET lp == Positions(lk, k)
        rp == Positions(rk, k)
    IN  IF lp # <<>> /\ rp # <<>> THEN Cross(lp, rp)
        ELSE IF rp = <<>> /\ h \in {"left", "outer"}
             THEN [a \in 1..Len(lp) |-> <<lp[a], 0>>]
        ELSE IF lp = <<>> /\ h \in {"right", "outer"}
             THEN [b \in 1..Len(rp) |-> <<0, rp[b]>>]
        ELSE <<>>

\* The plan that goes key by key through the sequence ks.
GroupedPlan(lk, rk, ks, h) ==
    Flatten([n \in 1..Len(ks) |-> KeyGroup(lk, rk, ks[n], h)])

\* LeftOrderPlan as it would be if a row of X took only the first row of Y
\* with its key.
LeftOrderPlan_FirstMatch(lk, rk, h) ==
    Flatten([l \in 1..Len(lk) |->
               LET rp == Positions(rk, lk[l])
               IN  IF rp # <<>> THEN << <<l, rp[1]>> >>
                   ELSE IF h = "left" THEN << <<l, 0>> >> ELSE <<>>])

\* LeftOrderPlan as it would be if the rows were gathered key by key, in
\* order of the keys' first occurrence in X.
LeftOrderPlan_ByKey(lk, rk, h) == GroupedPlan(lk, rk, Unique(lk), h)

\* LeftOrderPlan as it would be if a row of X without a match were kept
\* under every policy.
LeftOrderPlan_KeepUnmatched(lk, rk, h) ==
    Flatten([l \in 1..Len(lk) |->
               LET rp == Positions(rk, lk[l])
               IN  IF rp # <<>> THEN [b \in 1..Len(rp) |-> <<l, rp[b]>>]
                   ELSE << <<l, 0>> >>])

\* The plan that goes through the rows of X in order (h is left or inner).
LeftOrderPlan(lk, rk, h) ==
    Flatten([l \in 1..Len(lk) |->
               LET rp == Positions(rk, lk[l])
               IN  IF rp # <<>> THEN [b \in 1..Len(rp) |-> <<l, rp[b]>>]
                   ELSE IF h = "left" THEN << <<l, 0>> >> ELSE <<>>])

\* RightOrderPlan as it would be if a row of Y without a match were dropped.
RightOrderPlan_MatchedOnly(lk, rk) ==
    Flatten([r \in 1..Len(rk) |->
               LET lp == Positions(lk, rk[r])
               IN  [a \in 1..Len(lp) |-> <<lp[a], r>>]])

\* The plan that goes through the rows of Y in order.
RightOrderPlan(lk, rk) ==
    Flatten([r \in 1..Len(rk) |->
               LET lp == Positions(lk, rk[r])
               IN  IF lp # <<>> THEN [a \in 1..Len(lp) |-> <<lp[a], r>>]
                   ELSE << <<0, r>> >>])

\* The keys of both sides in order of first occurrence, X's first.
FactorizedKeys(lk, rk) == Unique(lk \o rk)

\* The keys of both sides in lexicographic order.
SortedKeys(lk, rk) == Keep(Alphabet, Range(lk) \cup Range(rk))

\* JoinPlan as it would be if `how` were ignored and only matches kept.
JoinPlan_IgnoreHow(lk, rk, h, rel) ==
    Flatten([l \in 1..Len(lk) |->
               [b \in 1..Len(Positions(rk, lk[l])) |->
                  <<l, Positions(rk, lk[l])[b]>>]])

\* The releases of the library differ in the row order of inner and outer
\* merges: up to 2.1 both go key by key in order of first occurrence, from
\* 2.2 on inner keeps the order of X's rows and outer sorts the keys.
Releases == {"upto21", "from22"}

\* The policy pd.merge applies when no `how` is passed.
DefaultHow == "inner"

JoinPlan(lk, rk, h, rel) ==
    CASE h = "left"  -> LeftOrderPlan(lk, rk, "left")
      [] h = "right" -> RightOrderPlan(lk, rk)
      [] h = "inner" -> IF rel = "upto21"
                        THEN GroupedPlan(lk, rk, FactorizedKeys(lk, rk), "inner")
                        ELSE LeftOrderPlan(lk, rk, "inner")
      [] h = "outer" -> IF rel = "upto21"
                        THEN GroupedPlan(lk, rk, FactorizedKeys(lk, rk), "outer")
                        ELSE GroupedPlan(lk, rk, SortedKeys(lk, rk), "outer")

(***************************************************************************)
(* pd.merge: building the output table from the plan.                      *)
(***************************************************************************)
\* Take as it would be if positions were counted from zero.
Take_OffByOne(vals, p) ==
    IF p = 0 THEN NaN ELSE vals[IF p > 1 THEN p - 1 ELSE Len(vals)]

\* Take as it would be if an absent row were filled with zero.
Take_NoFill(vals, p) == IF p = 0 THEN "0" ELSE vals[p]

\* The value of a column for the row at position p, missing when p = 0.
Take(vals, p) == IF p = 0 THEN NaN ELSE vals[p]

\* The default row labels 0, 1, ..., n-1 of a new table.
RangeIndex(n) == [i \in 1..n |-> ToString(i - 1)]

\* The columns of t that are not the key.
NonKeyCols(t) == SelectSeq(t.cols, LAMBDA c : c.name # KeyCol)

\* Suffixed as it would be if clashing names were left as they are.
Suffixed_Never(name, other, sfx) == name

\* The name a non-key column takes in the output of a merge: its own, with
\* the suffix of its side ("_x" left, "_y" right) when the other table has a
\* non-key column of the same name.
Suffixed(name, other, sfx) ==
    IF name # KeyCol /\ HasCol(other, name) THEN name \o sfx ELSE name

\* MergeExec as it would be if the columns of Y were laid beside those of
\* X row by row instead of by the plan.
MergeExec_RightByRow(X, Y, pl) ==
    LET n == Len(pl)
        xcols == [j \in 1..Len(X.cols) |->
                    [name |-> Suffixed(X.cols[j].name, Y, "_x"),
                     vals |-> [i \in 1..n |->
                                 IF X.cols[j].name = KeyCol /\ pl[i][1] = 0
                                 THEN Col(Y, KeyCol)[pl[i][2]]
                                 ELSE Take(X.cols[j].vals, pl[i][1])]]]
        ycols == [j \in 1..Len(NonKeyCols(Y)) |->
                    [name |-> Suffixed(NonKeyCols(Y)[j].name, X, "_y"),
                     vals |-> [i \in 1..n |->
                                 IF i <= NRows(Y) THEN NonKeyCols(Y)[j].vals[i]
                                 ELSE NaN]]]
    IN  [index |-> RangeIndex(n), cols |-> xcols \o ycols]

MergeExec(X, Y, pl) ==
    LET n == Len(pl)
        xcols == [j \in 1..Len(X.cols) |->
                    [name |-> Suffixed(X.cols[j].name, Y, "_x"),
                     vals |-> [i \in 1..n |->
                                 IF X.cols[j].name = KeyCol /\ pl[i][1] = 0
                                 THEN Col(Y, KeyCol)[pl[i][2]]
                                 ELSE Take(X.cols[j].vals, pl[i][1])]]]
        ycols == [j \in 1..Len(NonKeyCols(Y)) |->
                    [name |-> Suffixed(NonKeyCols(Y)[j].name, X, "_y"),
                     vals |-> [i \in 1..n |->
                                 Take(NonKeyCols(Y)[j].vals, pl[i][2])]]]
    IN  [index |-> RangeIndex(n), cols |-> xcols \o ycols]

\* The cleaning lecture has not been run.
CleanIdle ==
    /\ frame = "none"
    /\ strings = <<>>
    /\ numbers_loop = <<>>
    /\ numbers_str_method = <<>>
    /\ row = 0
    /\ equal = "none"
    /\ pc = "idle"

Init ==
    /\ \/ /\ L = dfL
          /\ R = dfR
       \/ /\ L = wdi2017_no_US
          /\ R = sq_miles_no_germany
       \/ \E kl \in SeqsUpTo(Keys, MaxRows), kr \in SeqsUpTo(Keys, MaxRows),
             sl \in Schemes, sr \in Schemes :
             /\ L = MkL(kl, IndexOf("L", kl, sl))
             /\ R = MkR(kr, IndexOf("R", kr, sr))
    /\ op = "none"
    /\ how = "none"
    /\ on = "none"
    /\ plan = <<>>
    /\ out = NoTable
    /\ err = "none"
    /\ CleanIdle

(***************************************************************************)
(* The calls of the lecture, one action each.                              *)
(***************************************************************************)
\* ConcatRows as it would be if the rows of R were appended to L in place.
ConcatRows_InPlace ==
    /\ op' = "concat0"
    /\ L' = ConcatAxis0(L, R)
    /\ out' = L'
    /\ err' = "none"
    /\ how' = "none"
    /\ on' = "none"
    /\ plan' = <<>>
    /\ UNCHANGED <<R, cleanVars>>

\* pd.concat([dfL, dfR], axis=0)
ConcatRows ==
    /\ op' = "concat0"
    /\ out' = ConcatAxis0(L, R)
    /\ err' = "none"
    /\ how' = "none"
    /\ on' = "none"
    /\ plan' = <<>>
    /\ UNCHANGED <<L, R, cleanVars>>

\* pd.concat([dfL, dfL], axis=0)
ConcatRowsSelf ==
    /\ op' = "concat0self"
    /\ out' = ConcatAxis0(L, L)
    /\ err' = "none"
    /\ how' = "none"
    /\ on' = "none"
    /\ plan' = <<>>
    /\ UNCHANGED <<L, R, cleanVars>>

\* pd.concat([dfL, dfR], axis=1)
ConcatCols ==
    /\ op' = "concat1"
    /\ IF CanAlign(L, R)
       THEN out' = ConcatAxis1(L, R) /\ err' = "none"
       ELSE out' = NoTable /\ err' = "InvalidIndexError"
    /\ how' = "none"
    /\ on' = "none"
    /\ plan' = <<>>
    /\ UNCHANGED <<L, R, cleanVars>>

\* pd.concat([dfR, dfR], axis=1)
ConcatColsSelf ==
    /\ op' = "concat1self"
    /\ IF CanAlign(R, R)
       THEN out' = ConcatAxis1(R, R) /\ err' = "none"
       ELSE out' = NoTable /\ err' = "InvalidIndexError"
    /\ how' = "none"
    /\ on' = "none"
    /\ plan' = <<>>
    /\ UNCHANGED <<L, R, cleanVars>>

\* pd.merge(dfL, dfR, on="Key", how=h)
Merge(h) ==
    \E rel \in Releases :
        /\ op' = "merge"
        /\ how' = h
        /\ on' = KeyCol
        /\ plan' = JoinPlan(Col(L, KeyCol), Col(R, KeyCol), h, rel)
        /\ out' = MergeExec(L, R, plan')
        /\ err' = "none"
        /\ UNCHANGED <<L, R, cleanVars>>

\* pd.merge(dfL, dfL, on="Key"): both tables have the columns C1 and C2.
MergeSelf ==
    \E rel \in Releases :
        /\ op' = "mergeSelf"
        /\ how' = "default"
        /\ on' = KeyCol
        /\ plan' = JoinPlan(Col(L, KeyCol), Col(L, KeyCol), DefaultHow, rel)
        /\ out' = MergeExec(L, L, plan')
        /\ err' = "none"
        /\ UNCHANGED <<L, R, cleanVars>>

Next ==
    \/ ConcatRows
    \/ ConcatRowsSelf
    \/ ConcatCols
    \/ ConcatColsSelf
    \/ \E h \in How : Merge(h)
    \/ MergeSelf

Spec == Init /\ [][Next]_vars

(***************************************************************************)
(* pd.merge and df.join with arguments left out or set otherwise.          *)
(***************************************************************************)
\* The policy df.join applies when no `how` is passed.
JoinDefaultHow == "left"

\* A table labelled by its key and without the key column, as sq_miles is:
\* the country is its index and sq_miles its only column.
SetIndex(t) == [index |-> Col(t, KeyCol), cols |-> NonKeyCols(t)]

\* The output of a merge of the key column of X with the index of Y: the
\* rows keep the labels of X, the columns of Y follow those of X.
IndexJoinExec(X, Y, pl) ==
    LET n == Len(pl)
    IN  [index |-> [i \in 1..n |-> X.index[pl[i][1]]],
         cols  |-> [j \in 1..Len(X.cols) |->
                      [name |-> X.cols[j].name,
                       vals |-> [i \in 1..n |-> X.cols[j].vals[pl[i][1]]]]]
                   \o
                   [j \in 1..Len(Y.cols) |->
                      [name |-> Y.cols[j].name,
                       vals |-> [i \in 1..n |-> Take(Y.cols[j].vals, pl[i][2])]]]]

\* X.join(Y, on="Key")
JoinOn(X, Y) ==
    IndexJoinExec(X, Y, JoinPlan(Col(X, KeyCol), Y.index, JoinDefaultHow, "from22"))

\* pd.merge(X, Y, left_on="Key", right_index=True)
MergeRightIndex(X, Y, rel) ==
    IndexJoinExec(X, Y, JoinPlan(Col(X, KeyCol), Y.index, DefaultHow, rel))

(***************************************************************************)
(* pd.merge(X, Y, on=cols, how=h) for any list of key columns: a row's key *)
(* is the tuple of its values in those columns.                            *)
(***************************************************************************)
\* The key tuple of every row of t.
KeyTuples(t, cols) ==
    [i \in 1..NRows(t) |-> [j \in 1..Len(cols) |-> Col(t, cols[j])[i]]]

\* The order of the cell values as strings: digits before letters.
ValueOrder ==
    << "1", "10", "100", "2", "20", "200", "3", "30", "300", "4", "40", "400",
       "5", "50", "500", "6", "60", "600", "7", "70", "700", "8", "80", "800",
       "9", "90", "900" >> \o Alphabet

ValueRank(v) == CHOOSE i \in 1..Len(ValueOrder) : ValueOrder[i] = v

\* True when key tuple a sorts before key tuple b or equals it.
TupleBefore(a, b) ==
    \/ a = b
    \/ \E j \in 1..Len(a) :
          /\ \A m \in 1..(j - 1) : a[m] = b[m]
          /\ ValueRank(a[j]) < ValueRank(b[j])

\* The key tuples of both sides in lexicographic order.
SortedTuples(lk, rk) == SortSeq(Unique(lk \o rk), TupleBefore)

JoinPlanOn(lk, rk, h, rel) ==
    IF h = "outer" /\ rel = "from22"
    THEN GroupedPlan(lk, rk, SortedTuples(lk, rk), "outer")
    ELSE JoinPlan(lk, rk, h, rel)

\* The name of a column in the output: suffixed when it is no key column
\* and the other table has a column of the same name.
SuffixedOn(name, cols, other, sfx) ==
    IF name \notin Range(cols) /\ HasCol(other, name) THEN name \o sfx ELSE name

MergeExecOn(X, Y, cols, pl) ==
    LET n == Len(pl)
        rest  == SelectSeq(Y.cols, LAMBDA c : c.name \notin Range(cols))
        xcols == [j \in 1..Len(X.cols) |->
                    [name |-> SuffixedOn(X.cols[j].name, cols, Y, "_x"),
                     vals |-> [i \in 1..n |->
                                 IF X.cols[j].name \in Range(cols) /\ pl[i][1] = 0
                                 THEN Col(Y, X.cols[j].name)[pl[i][2]]
                                 ELSE Take(X.cols[j].vals, pl[i][1])]]]
        ycols == [j \in 1..Len(rest) |->
                    [name |-> SuffixedOn(rest[j].name, cols, X, "_y"),
                     vals |-> [i \in 1..n |-> Take(rest[j].vals, pl[i][2])]]]
    IN  [index |-> RangeIndex(n), cols |-> xcols \o ycols]

\* What a merge call produces: the plan, the output table and the error.
MergeOnCols(X, Y, cols, h, rel) ==
    LET pl == JoinPlanOn(KeyTuples(X, cols), KeyTuples(Y, cols), h, rel)
    IN  [plan |-> pl, out |-> MergeExecOn(X, Y, cols, pl), err |-> "none"]

\* True when the key column k is missing in X or in Y.
KeyMissing(X, Y, k) == ~HasCol(X, k) \/ ~HasCol(Y, k)

\* OnMissingKey as it would be if a missing key column matched nothing.
OnMissingKey_NoMatch(X, Y) ==
    [plan |-> [i \in 1..NRows(X) |-> <<i, 0>>], out |-> X, err |-> "none"]

\* A merge on a key column that is missing raises KeyError before any row
\* is lined up.
OnMissingKey(X, Y) == [plan |-> <<>>, out |-> NoTable, err |-> "KeyError"]

\* pd.merge(X, Y, on=k, how=h)
MergeOnKey(X, Y, k, h, rel) ==
    IF KeyMissing(X, Y, k) THEN OnMissingKey(X, Y)
    ELSE MergeOnCols(X, Y, <<k>>, h, rel)

\* CommonCols as it would be if only the first shared column were used.
CommonCols_First(X, Y) ==
    SubSeq(Keep(ColNames(X), Range(ColNames(Y))), 1, 1)

\* The columns of X that Y has too: the key when no `on` is passed.
CommonCols(X, Y) == Keep(ColNames(X), Range(ColNames(Y)))

\* pd.merge(X, Y, how=h): without common columns it raises MergeError.
MergeNoKey(X, Y, h, rel) ==
    IF CommonCols(X, Y) = <<>>
    THEN [plan |-> <<>>, out |-> NoTable, err |-> "MergeError"]
    ELSE MergeOnCols(X, Y, CommonCols(X, Y), h, rel)

\* Column names a merge may be asked to align on.
OnNames == {"Key", "C1", "Kee"}

\* pd.merge(dfL, dfR, on=k, how=h)
MergeOn(k, h) ==
    \E rel \in Releases :
        LET res == MergeOnKey(L, R, k, h, rel)
        IN  /\ op' = "merge"
            /\ how' = h
            /\ on' = k
            /\ plan' = res.plan
            /\ out' = res.out
            /\ err' = res.err
            /\ UNCHANGED <<L, R, cleanVars>>

\* pd.merge(dfL, dfR, how=h)
MergeNoOn(h) ==
    \E rel \in Releases :
        LET res == MergeNoKey(L, R, h, rel)
        IN  /\ op' = "merge"
            /\ how' = h
            /\ on' = "default"
            /\ plan' = res.plan
            /\ out' = res.out
            /\ err' = res.err
            /\ UNCHANGED <<L, R, cleanVars>>

\* pd.merge(dfL, dfL, how=h): every column is shared.
MergeSelfNoOn(h) ==
    \E rel \in Releases :
        LET res == MergeNoKey(L, L, h, rel)
        IN  /\ op' = "mergeSelf"
            /\ how' = h
            /\ on' = "default"
            /\ plan' = res.plan
            /\ out' = res.out
            /\ err' = res.err
            /\ UNCHANGED <<L, R, cleanVars>>

\* pd.merge(wdi2017, sq_miles, how=h) with the key in the index of both:
\* no column is shared.
MergeIndexedNoOn(h) ==
    \E rel \in Releases :
        LET res == MergeNoKey(SetIndex(L), SetIndex(R), h, rel)
        IN  /\ op' = "mergeIndexed"
            /\ how' = h
            /\ on' = "default"
            /\ plan' = res.plan
            /\ out' = res.out
            /\ err' = res.err
            /\ UNCHANGED <<L, R, cleanVars>>

\* pd.merge(dfL, dfR, on="Key")
MergeDefaultHow ==
    \E rel \in Releases :
        /\ op' = "merge"
        /\ how' = "default"
        /\ on' = KeyCol
        /\ plan' = JoinPlan(Col(L, KeyCol), Col(R, KeyCol), DefaultHow, rel)
        /\ out' = MergeExec(L, R, plan')
        /\ err' = "none"
        /\ UNCHANGED <<L, R, cleanVars>>

\* wdi2017.join(sq_miles, on="country")
Join ==
    /\ op' = "join"
    /\ how' = "default"
    /\ on' = KeyCol
    /\ plan' = JoinPlan(Col(L, KeyCol), SetIndex(R).index, JoinDefaultHow, "from22")
    /\ out' = JoinOn(L, SetIndex(R))
    /\ err' = "none"
    /\ UNCHANGED <<L, R, cleanVars>>

NextArgs ==
    \/ MergeDefaultHow
    \/ Join

SpecArgs == Init /\ [][NextArgs]_vars

(***************************************************************************)
(* The calls that name the key column, or leave it to pd.merge, run on     *)
(* tables with their own row labels.                                       *)
(***************************************************************************)
\* The most rows a generated table has in these calls.
MaxKeyRows == 2

InitKeys ==
    /\ \/ /\ L = dfL
          /\ R = dfR
       \/ /\ L = wdi2017_no_US
          /\ R = sq_miles_no_germany
       \/ \E kl \in SeqsUpTo(Keys, MaxKeyRows), kr \in SeqsUpTo(Keys, MaxKeyRows) :
             /\ L = MkL(kl, IndexOf("L", kl, "own"))
             /\ R = MkR(kr, IndexOf("R", kr, "own"))
    /\ op = "none"
    /\ how = "none"
    /\ on = "none"
    /\ plan = <<>>
    /\ out = NoTable
    /\ err = "none"
    /\ CleanIdle

NextKeys ==
    \/ \E k \in OnNames, h \in How : MergeOn(k, h)
    \/ \E h \in How : MergeNoOn(h)
    \/ \E h \in How : MergeSelfNoOn(h)
    \/ \E h \in How : MergeIndexedNoOn(h)

SpecKeys == InitKeys /\ [][NextKeys]_vars

(***************************************************************************)
(* data_clean.py: removing a character from every string of a column, row  *)
(* by row in a loop and with the column's .str method.  A string is the    *)
(* sequence of its characters.                                             *)
(***************************************************************************)
\* The most rows of the frame and the most characters of a string.
MaxCleanRows == 2

MaxStrLen == 2

\* df has the column "numbers" ("#23", ...), test the column "strings"
\* ("12.34%", ...).
Frames == {"df", "test"}

\* The character the lecture removes from the strings of the frame.
Removed(f) == IF f = "df" THEN "#" ELSE "%"

Chars(f) == {Removed(f), "0", "1"}

\* The cell of a row the column has no value for.
NaNCell == <<"NaN">>

\* PyStrReplace as it would be if only the first occurrence were removed.
PyStrReplace_First(s, ch) ==
    IF \E i \in 1..Len(s) : s[i] = ch
    THEN LET i == CHOOSE i \in 1..Len(s) :
                     s[i] = ch /\ \A m \in 1..(i - 1) : s[m] # ch
         IN  SubSeq(s, 1, i - 1) \o SubSeq(s, i + 1, Len(s))
    ELSE s

\* s.replace(ch, ""): s without any occurrence of ch.
PyStrReplace(s, ch) == SelectSeq(s, LAMBDA c : c # ch)

RECURSIVE StripZeros(_)
StripZeros(s) ==
    IF Len(s) > 1 /\ s[1] = "0" THEN StripZeros(Tail(s)) ELSE s

\* int(s) for a string of digits: a number, written without leading zeros.
PyInt(s) == <<"int">> \o StripZeros(s)

RECURSIVE RemoveAll(_, _)
\* The string s with every occurrence of ch cut out, one after the other.
RemoveAll(s, ch) ==
    IF s = <<>> THEN <<>>
    ELSE IF Head(s) = ch THEN RemoveAll(Tail(s), ch)
    ELSE <<Head(s)>> \o RemoveAll(Tail(s), ch)

\* col.str.replace(ch, ""): the whole column in one call.
SeriesStrReplace(col, ch) == [i \in 1..Len(col) |-> RemoveAll(col[i], ch)]

\* frame.at[label, column] = v: the column is created, without values, on
\* the first write; the write goes to every row with that label.
AtSet(col, index, label, v) ==
    LET base == IF col = <<>> THEN [i \in 1..Len(index) |-> NaNCell] ELSE col
    IN  [i \in 1..Len(index) |-> IF index[i] = label THEN v ELSE base[i]]

\* a.equals(b)
SeriesEquals(a, b) ==
    /\ Len(a) = Len(b)
    /\ \A i \in 1..Len(a) : a[i] = b[i]

\* The frame as built by the lecture: at least one row, default row labels,
\* and in df each string has a digit.
InitClean ==
    /\ L = dfL
    /\ R = dfR
    /\ op = "none"
    /\ how = "none"
    /\ on = "none"
    /\ plan = <<>>
    /\ out = NoTable
    /\ err = "none"
    /\ frame \in Frames
    /\ \E n \in 1..MaxCleanRows :
          strings \in [1..n -> SeqsUpTo(Chars(frame), MaxStrLen)]
    /\ frame = "df" =>
          \A i \in 1..Len(strings) : PyStrReplace(strings[i], "#") # <<>>
    /\ numbers_loop = <<>>
    /\ numbers_str_method = <<>>
    /\ row = 0
    /\ equal = "none"
    /\ pc = "loop"

\* One pass of `for row in frame.iterrows()`.
LoopStep ==
    /\ pc = "loop"
    /\ row < Len(strings)
    /\ LET index_value == RangeIndex(Len(strings))[row + 1]
           column_value == strings[row + 1]
           clean_number ==
               IF frame = "df"
               THEN PyInt(PyStrReplace(column_value, Removed(frame)))
               ELSE PyStrReplace(column_value, Removed(frame))
       IN  numbers_loop' = AtSet(numbers_loop, RangeIndex(Len(strings)),
                                 index_value, clean_number)
    /\ row' = row + 1
    /\ UNCHANGED <<frame, strings, numbers_str_method, equal, pc, mergeVars>>

\* The loop has gone through every row.
LoopEnd ==
    /\ pc = "loop"
    /\ row = Len(strings)
    /\ pc' = "str"
    /\ UNCHANGED <<frame, strings, numbers_loop, numbers_str_method, row,
                   equal, mergeVars>>

\* frame[...] = frame[...].str.replace(ch, "")
StrMethod ==
    /\ pc = "str"
    /\ numbers_str_method' = SeriesStrReplace(strings, Removed(frame))
    /\ pc' = IF frame = "test" THEN "equals" ELSE "done"
    /\ UNCHANGED <<frame, strings, numbers_loop, row, equal, mergeVars>>

\* test["numbers_str_method"].equals(test["numbers_loop"])
Equals ==
    /\ pc = "equals"
    /\ equal' = IF SeriesEquals(numbers_str_method, numbers_loop)
                THEN "True" ELSE "False"
    /\ pc' = "done"
    /\ UNCHANGED <<frame, strings, numbers_loop, numbers_str_method, row,
                   mergeVars>>

NextClean ==
    \/ LoopStep
    \/ LoopEnd
    \/ StrMethod
    \/ Equals

SpecClean == InitClean /\ [][NextClean]_vars

(***************************************************************************)
(* Properties of the calls.                                                *)
(***************************************************************************)
LKeys == Col(L, KeyCol)

RKeys == Col(R, KeyCol)

\* Row i of table t, as the tuple of its cells in column order.
Row(t, i) == [j \in 1..Len(t.cols) |-> t.cols[j].vals[i]]

Rows(t) == {Row(t, i) : i \in 1..NRows(t)}

\* The key of plan entry e: that of the side that is present.
EntryKey(e) == IF e[1] # 0 THEN LKeys[e[1]] ELSE RKeys[e[2]]

\* C1: the set of key values in the output of a merge is fixed by the
\* policy: left gives exactly the keys of L, right exactly the keys of R,
\* inner exactly the keys in both, outer exactly the keys in L or in R.
C1_KeySetByPolicy ==
    op = "merge" =>
        LET ok == Range(Col(out, KeyCol))
        IN  /\ how = "left"  => ok = Range(LKeys)
            /\ how = "right" => ok = Range(RKeys)
            /\ how = "inner" => ok = Range(LKeys) \cap Range(RKeys)
            /\ how = "outer" => ok = Range(LKeys) \cup Range(RKeys)

\* An outer merge of tables with a key in both, a key only in L and a key
\* only in R.
C1_Witness ==
    /\ op = "merge"
    /\ how = "outer"
    /\ Range(LKeys) \cap Range(RKeys) # {}
    /\ Range(LKeys) \ Range(RKeys) # {}
    /\ Range(RKeys) \ Range(LKeys) # {}
    /\ Range(Col(out, KeyCol)) = Range(LKeys) \cup Range(RKeys)

\* C2: a key that occurs k >= 1 times in L and m >= 1 times in R has
\* exactly k*m plan entries, one for each pairing of a row of L with a row
\* of R that hold it.
C2_CrossProductPerKey ==
    op = "merge" =>
        \A k \in Range(LKeys) \cap Range(RKeys) :
            LET E  == {i \in 1..Len(plan) : EntryKey(plan[i]) = k}
                lp == Range(Positions(LKeys, k))
                rp == Range(Positions(RKeys, k))
            IN  /\ Cardinality(E) = Cardinality(lp) * Cardinality(rp)
                /\ {plan[i] : i \in E} = lp \X rp

\* A merge where a key held by two rows of L and one row of R repeats the
\* row of R, and where a key held twice on both sides makes the output
\* longer than either input.
C2_Witness ==
    /\ op = "merge"
    /\ \E k \in Range(LKeys) :
          /\ Len(Positions(LKeys, k)) = 2
          /\ Len(Positions(RKeys, k)) = 2
    /\ NRows(out) > NRows(L)
    /\ NRows(out) > NRows(R)

\* C3: with L.Key = [A,B,A,C] and R.Key = [A,B,C,D] the inner merge has
\* exactly 4 rows and none for D; the outer merge has exactly 5 rows: those
\* 4 and one for D whose columns from L are all missing.
C3_LectureTables ==
    (op = "merge" /\ L = dfL /\ R = dfR) =>
        LET matched == { <<"A", "1", "10", "100">>, <<"A", "3", "30", "100">>,
                         <<"B", "2", "20", "200">>, <<"C", "4", "40", "300">> }
        IN  /\ how = "inner" =>
                /\ NRows(out) = 4
                /\ Rows(out) = matched
                /\ "D" \notin Range(Col(out, KeyCol))
            /\ how = "outer" =>
                /\ NRows(out) = 5
                /\ Rows(out) = matched \cup { <<"D", NaN, NaN, "400">> }

\* The outer merge of the lecture's dfL and dfR, with its row for D.
C3_Witness ==
    /\ op = "merge"
    /\ how = "outer"
    /\ L = dfL
    /\ R = dfR
    /\ "D" \in Range(Col(out, KeyCol))

\* True when plan entry a comes before plan entry b in (left position,
\* right position) order.
PairBefore(a, b) == a[1] < b[1] \/ (a[1] = b[1] /\ a[2] < b[2])

\* The plan in the order the join-plan rule states: key by key, the keys of
\* L in order of first occurrence (then, for outer, the keys only in R).
StatedPlan(h) ==
    GroupedPlan(LKeys, RKeys,
                IF h = "left" THEN Unique(LKeys) ELSE Unique(LKeys \o RKeys), h)

\* C4 as stated: the plan of a left or outer merge goes key by key in
\* order of first occurrence, so all rows of a repeated key of L are
\* adjacent in the output of a left merge.
C4_AsStated ==
    (op = "merge" /\ how \in {"left", "outer"}) => plan = StatedPlan(how)

\* C4: the plan of a left merge is in ascending left position and, within
\* one left row, ascending right position (the rows of a repeated key of L
\* stay where they are in L); in an outer merge the entries of one key are
\* adjacent and within one key in ascending left, then ascending right
\* position, and the keys come either in order of first occurrence (L's,
\* then those only in R) or in sorted order.
C4_PlanOrder ==
    op = "merge" =>
        /\ how = "left" =>
              \A i, j \in 1..Len(plan) : i < j => PairBefore(plan[i], plan[j])
        /\ how = "outer" =>
              /\ \A i, j \in 1..Len(plan) :
                    (i < j /\ EntryKey(plan[i]) = EntryKey(plan[j])) =>
                        /\ PairBefore(plan[i], plan[j])
                        /\ \A m \in i..j : EntryKey(plan[m]) = EntryKey(plan[i])
              /\ Unique([i \in 1..Len(plan) |-> EntryKey(plan[i])])
                    \in {FactorizedKeys(LKeys, RKeys), SortedKeys(LKeys, RKeys)}

\* A left merge where a key of L is repeated on rows that are not adjacent,
\* and stays so in the output.
C4_Witness ==
    /\ op = "merge"
    /\ how = "left"
    /\ Len(plan) >= 3
    /\ EntryKey(plan[1]) = EntryKey(plan[3])
    /\ EntryKey(plan[1]) # EntryKey(plan[2])

\* C5: the index of a row stack is L's index followed by R's index, no
\* label removed or merged, so it has rows(L) + rows(R) rows; stacking a
\* table on itself gives twice its rows.
C5_RowStackIndex ==
    /\ op = "concat0" =>
          /\ NRows(out) = NRows(L) + NRows(R)
          /\ \A i \in 1..NRows(L) : out.index[i] = L.index[i]
          /\ \A i \in 1..NRows(R) : out.index[NRows(L) + i] = R.index[i]
          /\ \A j \in 1..Len(out.cols) :
                Len(out.cols[j].vals) = NRows(L) + NRows(R)
    /\ op = "concat0self" =>
          /\ NRows(out) = 2 * NRows(L)
          /\ \A i \in 1..NRows(L) :
                out.index[i] = L.index[i] /\ out.index[NRows(L) + i] = L.index[i]
          /\ \A j \in 1..Len(out.cols) : Len(out.cols[j].vals) = 2 * NRows(L)

\* A row stack of two tables that share a row label.
C5_Witness ==
    /\ op = "concat0"
    /\ Range(L.index) \cap Range(R.index) # {}
    /\ NRows(L) >= 2
    /\ NRows(out) = NRows(L) + NRows(R)

\* C6: the columns of a row stack are L's columns in L's order followed by
\* the columns only R has; a cell of a column the row's own table lacks is
\* missing, every other cell is the own table's value at that row.
C6_RowStackColumns ==
    op = "concat0" =>
        /\ ColNames(out) =
              ColNames(L) \o SelectSeq(ColNames(R), LAMBDA c : ~HasCol(L, c))
        /\ \A j \in 1..Len(out.cols) :
              LET c == out.cols[j].name
              IN  /\ \A i \in 1..NRows(L) :
                        out.cols[j].vals[i] =
                            IF HasCol(L, c) THEN Col(L, c)[i] ELSE NaN
                  /\ \A i \in 1..NRows(R) :
                        out.cols[j].vals[NRows(L) + i] =
                            IF HasCol(R, c) THEN Col(R, c)[i] ELSE NaN

\* A row stack of non-empty tables, with C1 missing in R's rows and C3
\* missing in L's rows.
C6_Witness ==
    /\ op = "concat0"
    /\ NRows(L) >= 1
    /\ NRows(R) >= 1
    /\ Col(out, "C3")[1] = NaN
    /\ Col(out, "C1")[NRows(L) + 1] = NaN
    /\ Col(out, "C3")[NRows(L) + 1] = "100"

\* What C7 states of a column stack: one row per distinct label, L's
\* labels first and then those only in R, and missing cells in the columns
\* of the input that lacks the label.
OneRowPerLabel ==
    /\ err = "none"
    /\ out.index =
          Unique(L.index) \o SelectSeq(Unique(R.index),
                                       LAMBDA x : x \notin Range(L.index))
    /\ NRows(out) = Cardinality(Range(L.index) \cup Range(R.index))
    /\ \A i \in 1..NRows(out) :
          /\ out.index[i] \notin Range(L.index) =>
                \A j \in 1..Len(L.cols) : out.cols[j].vals[i] = NaN
          /\ out.index[i] \notin Range(R.index) =>
                \A j \in 1..Len(R.cols) :
                    out.cols[Len(L.cols) + j].vals[i] = NaN

RowMap(t, i) == [c \in Range(ColNames(t)) |-> Col(t, c)[i]]

\* True when a and b hold the same rows, each as often, in any row order
\* and any column order.
SameRows(a, b) ==
    /\ NRows(a) = NRows(b)
    /\ \A i \in 1..NRows(a) :
          Cardinality({j \in 1..NRows(a) : RowMap(a, j) = RowMap(a, i)})
              = Cardinality({j \in 1..NRows(b) : RowMap(b, j) = RowMap(a, i)})

\* pd.merge(R, L, on="Key", how=h) under release rel.
MergeRL(h, rel) == MergeExec(R, L, JoinPlan(RKeys, LKeys, h, rel))

\* C8: the inner merge of (L, R) and the inner merge of (R, L) hold the
\* same rows, column order and row order disregarded.
C8_InnerCommutes ==
    (op = "merge" /\ how = "inner") =>
        \A rel \in Releases : SameRows(out, MergeRL("inner", rel))

\* An inner merge with a key repeated in L whose rows come in another order
\* and whose columns come in another order when the inputs are swapped.
C8_Witness ==
    /\ op = "merge"
    /\ how = "inner"
    /\ NRows(out) >= 3
    /\ \E k \in Range(LKeys) : Len(Positions(LKeys, k)) >= 2
    /\ \A rel \in Releases :
          /\ ColNames(MergeRL("inner", rel)) # ColNames(out)
          /\ Col(MergeRL("inner", rel), "C1") # Col(out, "C1")

\* C9: when every key of L occurs in R and no key occurs twice in R, the
\* left merge has exactly rows(L) rows, every row of L is in it with its
\* values unchanged, and R's other columns are appended, filled from the
\* row of R with the same key.
C9_LeftMergeKeepsL ==
    (/\ op = "merge"
     /\ how = "left"
     /\ Range(LKeys) \subseteq Range(RKeys)
     /\ IsUniqueIndex(RKeys))
        => /\ NRows(out) = NRows(L)
           /\ ColNames(out) = ColNames(L) \o ColNames([cols |-> NonKeyCols(R)])
           /\ \A i \in 1..NRows(L) :
                 \E j \in 1..NRows(out) :
                     /\ \A c \in Range(ColNames(L)) : Col(out, c)[j] = Col(L, c)[i]
                     /\ \A c \in Range(ColNames(R)) \ {KeyCol} :
                           Col(out, c)[j] = Col(R, c)[PosOf(RKeys, LKeys[i])]

\* A left merge of an L that repeats a key with an R that holds every key
\* of L once, not in L's order.
C9_Witness ==
    /\ op = "merge"
    /\ how = "left"
    /\ Range(LKeys) \subseteq Range(RKeys)
    /\ IsUniqueIndex(RKeys)
    /\ ~IsUniqueIndex(LKeys)
    /\ NRows(L) >= 3
    /\ LKeys[1] # RKeys[1]
    /\ NRows(out) = NRows(L)

\* C10: an outer merge has at least as many rows as the left merge, the
\* right merge and the inner merge of the same tables.
C10_OuterIsLargest ==
    (op = "merge" /\ how = "outer") =>
        \A h \in {"left", "right", "inner"}, rel \in Releases :
            NRows(out) >= Len(JoinPlan(LKeys, RKeys, h, rel))

\* An outer merge with more rows than each of the other three.
C10_Witness ==
    /\ op = "merge"
    /\ how = "outer"
    /\ \A h \in {"left", "right", "inner"}, rel \in Releases :
          NRows(out) > Len(JoinPlan(LKeys, RKeys, h, rel))
    /\ Len(JoinPlan(LKeys, RKeys, "inner", "upto21")) >= 1

\* C11: a merge called without `how` uses the left policy: its result is
\* that of the same merge with how="left", and keeps every key of L.
C11_DefaultIsLeft ==
    (op = "merge" /\ how = "default" /\ on = KeyCol) =>
        /\ out = MergeExec(L, R, JoinPlan(LKeys, RKeys, "left", "from22"))
        /\ Range(LKeys) \subseteq Range(Col(out, KeyCol))

\* C12: left.join(right, on=k) returns the table that
\* merge(left, right, left_on=k, right_index=True) returns, also when a key
\* of left is absent from right's index.
C12_JoinIsMergeRightIndex ==
    op = "join" =>
        \E rel \in Releases : out = MergeRightIndex(L, SetIndex(R), rel)

\* C13: the merge output has exactly one row per plan entry, in plan
\* order; where an entry has no row on a side the (non-key) columns of that
\* side are missing in that row, otherwise every cell of the side is the
\* input's value at the paired position; the key is that of the side present.
C13_OneRowPerEntry ==
    op = "merge" =>
        /\ NRows(out) = Len(plan)
        /\ \A i \in 1..Len(plan) :
              LET l == plan[i][1]
                  r == plan[i][2]
              IN  /\ l # 0 \/ r # 0
                  /\ Col(out, KeyCol)[i] = EntryKey(plan[i])
                  /\ (l # 0 /\ r # 0) => LKeys[l] = RKeys[r]
                  /\ \A c \in Range(ColNames(L)) \ {KeyCol} :
                        Col(out, c)[i] = IF l = 0 THEN NaN ELSE Col(L, c)[l]
                  /\ \A c \in Range(ColNames(R)) \ {KeyCol} :
                        Col(out, c)[i] = IF r = 0 THEN NaN ELSE Col(R, c)[r]

\* A merge whose plan has an entry without a left row, one without a right
\* row and one with both.
C13_Witness ==
    /\ op = "merge"
    /\ \E i, j, k \in 1..Len(plan) :
          /\ plan[i][1] = 0
          /\ plan[j][2] = 0
          /\ plan[k][1] > 1 /\ plan[k][2] > 1
    /\ NRows(out) = Len(plan)

\* True when every column of t has one value per index label.
ColumnsAligned(t) == \A j \in 1..Len(t.cols) : Len(t.cols[j].vals) = NRows(t)

\* True when no two columns of t have the same name.
NamesDistinct(t) ==
    \A i, j \in 1..Len(t.cols) : t.cols[i].name = t.cols[j].name => i = j

\* C14 as stated: every table a row stack, a column stack or a merge
\* returns has columns as long as its index and distinct column names.
C14_AsStated ==
    (op # "none" /\ err = "none") => (ColumnsAligned(out) /\ NamesDistinct(out))

\* C14: every table a row stack, a column stack or a merge returns has
\* columns as long as its index; the column names of a row stack and of a
\* merge are distinct (clashing non-key names of a merge get the suffixes
\* _x and _y); a column stack keeps the columns of both inputs under their
\* own names, so a name the inputs share is there twice.
C14_TableInvariant ==
    (op # "none" /\ err = "none") =>
        /\ ColumnsAligned(out)
        /\ op \in {"concat0", "concat0self", "merge", "mergeSelf"}
              => NamesDistinct(out)
        /\ op = "concat1" => ColNames(out) = ColNames(L) \o ColNames(R)
        /\ op = "concat1self" => ColNames(out) = ColNames(R) \o ColNames(R)

\* A merge of a table with itself: C1 and C2 come out once per side.
C14_Witness ==
    /\ op = "mergeSelf"
    /\ NRows(out) > NRows(L)
    /\ ColNames(out) = <<"Key", "C1_x", "C2_x", "C1_y", "C2_y">>

\* C15: no concatenation or merge call changes its input tables: across
\* every call L and R keep their index, column names and cell values.
C15_InputsUnchanged == [][L' = L /\ R' = R]_vars

\* A row stack has run on non-empty tables and returned a table that is
\* neither of its inputs.
C15_Witness ==
    /\ op = "concat0"
    /\ NRows(L) >= 1
    /\ NRows(R) >= 1
    /\ out # L
    /\ out # R
    /\ NRows(out) = NRows(L) + NRows(R)

C17_DefaultKey ==
    on = "default" =>
        /\ op = "merge" =>
              /\ err = "none"
              /\ \E rel \in Releases :
                    /\ plan = JoinPlan(LKeys, RKeys, how, rel)
                    /\ out = MergeExec(L, R, plan)
        /\ op = "mergeSelf" =>
              /\ err = "none"
              /\ \E rel \in Releases :
                    out = MergeOnCols(L, L, <<"Key", "C1", "C2">>, how, rel).out
              /\ ColNames(out) = ColNames(L)
              /\ SameRows(out, L)
        /\ op = "mergeIndexed" =>
              /\ how \in How
              /\ err = "MergeError"
              /\ plan = <<>>
              /\ out = NoTable

\* A merge of a table that repeats a key with itself, no key passed: the
\* rows pair on all three columns, so each only with itself.
C17_Witness ==
    /\ op = "mergeSelf"
    /\ on = "default"
    /\ ~IsUniqueIndex(LKeys)
    /\ NRows(L) >= 2
    /\ NRows(out) = NRows(L)

\* C18: under the inner policy no plan entry lacks a row on either side;
\* when L and R share no key value the plan is empty and the merge returns
\* a table without rows, not an error.
C18_InnerOnlyMatches ==
    (op = "merge" /\ how = "inner") =>
        /\ \A i \in 1..Len(plan) : plan[i][1] # 0 /\ plan[i][2] # 0
        /\ Range(LKeys) \cap Range(RKeys) = {} =>
              /\ plan = <<>>
              /\ err = "none"
              /\ out # NoTable
              /\ ColNames(out) = <<"Key", "C1", "C2", "C3">>
              /\ NRows(out) = 0
              /\ out.index = <<>>

\* An inner merge of two tables with rows and no key in common.
C18_Witness ==
    /\ op = "merge"
    /\ how = "inner"
    /\ NRows(L) >= 2
    /\ NRows(R) >= 2
    /\ Range(LKeys) \cap Range(RKeys) = {}
    /\ plan = <<>>
    /\ err = "none"

\* C20: the left merge of (L, R) and the right merge of (R, L) hold the
\* same rows, column order and row order disregarded.
C20_LeftIsMirroredRight ==
    (op = "merge" /\ how = "left") =>
        \A rel \in Releases : SameRows(out, MergeRL("right", rel))

\* A left merge with a key repeated in L and a row of L without a match;
\* the mirrored right merge has its columns in another order.
C20_Witness ==
    /\ op = "merge"
    /\ how = "left"
    /\ ~IsUniqueIndex(LKeys)
    /\ \E i \in 1..Len(plan) : plan[i][2] = 0
    /\ \E i \in 1..Len(plan) : plan[i][2] # 0
    /\ ColNames(out) # ColNames(MergeRL("right", "from22"))
    /\ SameRows(out, MergeRL("right", "from22"))

====
